---- MODULE Spec2Model ----
(***************************************************************************)
(* Search-problem formulations of problem.py: EightPuzzleProblem and       *)
(* EightQueensProblem.  Python lists are modelled as functions over        *)
(* 0..len-1 so that the indices of the source are kept.                    *)
(***************************************************************************)
EXTENDS Integers, Sequences, FiniteSets, TLC

VARIABLES
    estado,     \* contents of the state object the caller passes to a method
    arg,        \* contents of that object when the last call was entered
    accion,     \* action argument of the last call (<<>> when it takes none)
    ret,        \* <<v>> when the last call returned v, <<>> when it raised
                \* (in AliasSpec: <<v>> when it returned the state v)
    err,        \* "None", or the exception class the last call raised
    op,         \* name of the last method called
    perm,       \* local list perm of EightPuzzleProblem.estado_aleatorio
    pc,         \* position inside estado_aleatorio
    visitados,  \* puzzle states obtained from GOAL by resultado steps so far
    frontera,   \* the visited states found by the latest step
    clase,      \* "puzzle" or "queens": the class of the problem object
    heap,       \* the list objects, by address: each the list's items
    _initial,   \* address held by the attribute self._initial
    refs,       \* addresses of the state lists the caller holds
    s0,         \* value of the constructor's argument at construction
    copias,     \* number of states the methods returned so far
    mutaciones  \* number of writes the caller made so far

callVars == <<estado, arg, accion, ret, err, op>>
randVars == <<perm, pc>>
heapVars == <<clase, heap, _initial, refs, s0, copias, mutaciones>>
reachVars == <<visitados, frontera>>
vars == <<callVars, randVars, reachVars, heapVars>>

\* value of the variables a specification does not use
NoRand == perm = <<>> /\ pc = "-"
NoHeap ==
    /\ clase = "-" /\ heap = <<>> /\ _initial = 0 /\ refs = {}
    /\ s0 = <<>> /\ copias = 0 /\ mutaciones = 0
NoReach == visitados = {} /\ frontera = {}
NoCall == estado = <<>> /\ arg = <<>> /\ accion = <<>> /\ err = "None" /\ op = "-"

abs(x) == IF x < 0 THEN -x ELSE x

(***************************************************************************)
(* EightPuzzleProblem                                                      *)
(***************************************************************************)

GOAL == [r \in 0..2 |-> [c \in 0..2 |-> 3 * r + c]]

\* mutant: the goal position stored as (column, row)
_pos_objetivo_Traspuesto ==
    [v \in {GOAL[r][c] : r \in 0..2, c \in 0..2} |->
        CHOOSE p \in (0..2) \X (0..2) : GOAL[p[2]][p[1]] = v]

\* self._pos_objetivo as built by __init__: value -> (row, column) in GOAL
_pos_objetivo ==
    [v \in {GOAL[r][c] : r \in 0..2, c \in 0..2} |->
        CHOOSE p \in (0..2) \X (0..2) : GOAL[p[1]][p[2]] = v]

NoCero == <<-1, -1>>

RECURSIVE BuscarDesde(_, _)
\* the scan of _buscar_cero from cell k = 3r+c on
BuscarDesde(e, k) ==
    IF k = 9 THEN NoCero
    ELSE IF e[k \div 3][k % 3] = 0 THEN <<k \div 3, k % 3>>
    ELSE BuscarDesde(e, k + 1)

\* first cell holding 0 in row-major order; NoCero stands for the ValueError
_buscar_cero(e) == BuscarDesde(e, 0)

\* mutant: the tests of the blank's row append each other's direction
PuzzleAcciones_Cruzadas(e) ==
    LET z  == _buscar_cero(e)
        zr == z[1]
        zc == z[2]
        a1 == IF zr > 0 THEN <<"DOWN">> ELSE <<>>
        a2 == IF zr < 2 THEN Append(a1, "UP") ELSE a1
        a3 == IF zc > 0 THEN Append(a2, "LEFT") ELSE a2
        a4 == IF zc < 2 THEN Append(a3, "RIGHT") ELSE a3
    IN  a4

PuzzleAcciones(e) ==
    LET z  == _buscar_cero(e)
        zr == z[1]
        zc == z[2]
        a1 == IF zr > 0 THEN <<"UP">> ELSE <<>>
        a2 == IF zr < 2 THEN Append(a1, "DOWN") ELSE a1
        a3 == IF zc > 0 THEN Append(a2, "LEFT") ELSE a2
        a4 == IF zc < 2 THEN Append(a3, "RIGHT") ELSE a3
    IN  a4

deepcopy(e) == [r \in DOMAIN e |-> [c \in DOMAIN e[r] |-> e[r][c]]]

\* mutant: the swap done as two assignments in a row, so the blank is lost
PuzzleResultado_SinTemporal(e, a) ==
    LET new_state == deepcopy(e)
        z  == _buscar_cero(e)
        zr == z[1]
        zc == z[2]
        nr == IF a = "UP" THEN zr - 1 ELSE IF a = "DOWN" THEN zr + 1 ELSE zr
        nc == IF a = "LEFT" THEN zc - 1 ELSE IF a = "RIGHT" THEN zc + 1 ELSE zc
        s1 == [new_state EXCEPT ![zr][zc] = new_state[nr][nc]]
        s2 == [s1 EXCEPT ![nr][nc] = s1[zr][zc]]
    IN  IF z = NoCero
        THEN [err |-> "ValueError", ret |-> <<>>, estado |-> e]
        ELSE IF a \notin {"UP", "DOWN", "LEFT", "RIGHT"}
        THEN [err |-> "ValueError", ret |-> <<>>, estado |-> e]
        ELSE IF ~(0 <= nr /\ nr < 3 /\ 0 <= nc /\ nc < 3)
        THEN [err |-> "IndexError", ret |-> <<>>, estado |-> e]
        ELSE [err |-> "None", ret |-> <<s2>>, estado |-> e]

\* mutant: a move off the grid raises the error of an unknown action
PuzzleResultado_OtroError(e, a) ==
    LET new_state == deepcopy(e)
        z  == _buscar_cero(e)
        zr == z[1]
        zc == z[2]
        nr == IF a = "UP" THEN zr - 1 ELSE IF a = "DOWN" THEN zr + 1 ELSE zr
        nc == IF a = "LEFT" THEN zc - 1 ELSE IF a = "RIGHT" THEN zc + 1 ELSE zc
        s1 == [new_state EXCEPT ![zr][zc] = new_state[nr][nc]]
        s2 == [s1 EXCEPT ![nr][nc] = new_state[zr][zc]]
    IN  IF z = NoCero
        THEN [err |-> "ValueError", ret |-> <<>>, estado |-> e]
        ELSE IF a \notin {"UP", "DOWN", "LEFT", "RIGHT"}
        THEN [err |-> "ValueError", ret |-> <<>>, estado |-> e]
        ELSE IF ~(0 <= nr /\ nr < 3 /\ 0 <= nc /\ nc < 3)
        THEN [err |-> "ValueError", ret |-> <<>>, estado |-> e]
        ELSE [err |-> "None", ret |-> <<s2>>, estado |-> e]

\* The call's outcome: the exception raised (or "None"), the value returned,
\* and the contents of the argument object when the call ends.
PuzzleResultado(e, a) ==
    LET new_state == deepcopy(e)
        z  == _buscar_cero(e)
        zr == z[1]
        zc == z[2]
        nr == IF a = "UP" THEN zr - 1 ELSE IF a = "DOWN" THEN zr + 1 ELSE zr
        nc == IF a = "LEFT" THEN zc - 1 ELSE IF a = "RIGHT" THEN zc + 1 ELSE zc
        s1 == [new_state EXCEPT ![zr][zc] = new_state[nr][nc]]
        s2 == [s1 EXCEPT ![nr][nc] = new_state[zr][zc]]
    IN  IF z = NoCero
        THEN [err |-> "ValueError", ret |-> <<>>, estado |-> e]
        ELSE IF a \notin {"UP", "DOWN", "LEFT", "RIGHT"}
        THEN [err |-> "ValueError", ret |-> <<>>, estado |-> e]
        ELSE IF ~(0 <= nr /\ nr < 3 /\ 0 <= nc /\ nc < 3)
        THEN [err |-> "IndexError", ret |-> <<>>, estado |-> e]
        ELSE [err |-> "None", ret |-> <<s2>>, estado |-> e]

\* mutant: the 0 is left in the list
__contar_inversiones_ConCero(l) ==
    Cardinality({p \in (DOMAIN l) \X (DOMAIN l) : p[1] < p[2] /\ l[p[1]] > l[p[2]]})

\* l is a list over 0..8; the 0 is dropped before the pairs are compared
__contar_inversiones(l) ==
    LET idx  == {i \in DOMAIN l : l[i] # 0}
    IN  Cardinality({p \in idx \X idx : p[1] < p[2] /\ l[p[1]] > l[p[2]]})

__es_resoluble(l) == __contar_inversiones(l) % 2 = 0

RECURSIVE SumaManhattan(_, _)
\* the double loop of valor_objetivo, cell k = 3r+c onwards
SumaManhattan(e, k) ==
    IF k = 9 THEN 0
    ELSE LET r == k \div 3
             c == k % 3
             v == e[r][c]
         IN  IF v = 0 THEN SumaManhattan(e, k + 1)
             ELSE abs(r - _pos_objetivo[v][1]) + abs(c - _pos_objetivo[v][2])
                    + SumaManhattan(e, k + 1)

PuzzleValorObjetivo(e) == SumaManhattan(e, 0)

\* every 3x3 arrangement of 0..8, each value once
Grid(l) == [r \in 0..2 |-> [c \in 0..2 |-> l[3 * r + c]]]

\* The blank and the tiles 1..MaxTile lie on any cells; the other tiles fill
\* the cells left in ascending order.  Both inversion parities occur.
MaxTile == 3
Colocar(f) ==
    LET ocupada(k) == \E v \in DOMAIN f : f[v] = k
    IN  [k \in 0..8 |->
            IF ocupada(k) THEN CHOOSE v \in DOMAIN f : f[v] = k
            ELSE MaxTile + Cardinality({j \in 0..k : ~ocupada(j)})]
PuzzleStates ==
    {Grid(Colocar(f)) : f \in {g \in [0..MaxTile -> 0..8] :
                                \A v, w \in 0..MaxTile : v # w => g[v] # g[w]}}

\* Every method is a function of its arguments: a behaviour draws a state and
\* makes one call on it.
\* actions a caller may pass: the four directions and an unknown symbol
PuzzleInputs == {"UP", "DOWN", "LEFT", "RIGHT", "STAY"}

PuzzleInit ==
    /\ estado \in PuzzleStates
    /\ arg = estado
    /\ accion = <<>>
    /\ ret = <<>>
    /\ err = "None"
    /\ op = "new"
    /\ NoRand
    /\ NoReach
    /\ NoHeap

CallPuzzleAcciones ==
    /\ op = "new"
    /\ op' = "acciones"
    /\ arg' = estado
    /\ accion' = <<>>
    /\ IF _buscar_cero(estado) = NoCero
       THEN ret' = <<>> /\ err' = "ValueError"
       ELSE ret' = <<PuzzleAcciones(estado)>> /\ err' = "None"
    /\ UNCHANGED estado

CallPuzzleResultado(a) ==
    LET out == PuzzleResultado(estado, a)
    IN  /\ op = "new"
        /\ op' = "resultado"
        /\ arg' = estado
        /\ accion' = <<a>>
        /\ ret' = out.ret
        /\ err' = out.err
        /\ estado' = out.estado

CallPuzzleValorObjetivo ==
    /\ op = "new"
    /\ op' = "valor_objetivo"
    /\ arg' = estado
    /\ accion' = <<>>
    /\ ret' = <<PuzzleValorObjetivo(estado)>>
    /\ err' = "None"
    /\ UNCHANGED estado

PuzzleNext ==
    /\ \/ CallPuzzleAcciones
       \/ \E a \in PuzzleInputs : CallPuzzleResultado(a)
       \/ CallPuzzleValorObjetivo
    /\ UNCHANGED <<randVars, reachVars, heapVars>>

PuzzleSpec == PuzzleInit /\ [][PuzzleNext]_vars

(***************************************************************************)
(* Properties of EightPuzzleProblem                                        *)
(***************************************************************************)
Celdas == (0..2) \X (0..2)
EnLista(x, lista) == \E i \in DOMAIN lista : lista[i] = x

\* a 3x3 grid holding each of 0..8 once, hence exactly one 0
EsEstadoPuzzle(e) ==
    /\ DOMAIN e = 0..2
    /\ \A r \in 0..2 : DOMAIN e[r] = 0..2
    /\ \A v \in 0..8 : Cardinality({p \in Celdas : e[p[1]][p[2]] = v}) = 1

PosDe(e, v) == CHOOSE p \in Celdas : e[p[1]][p[2]] = v

\* the cell next to p in direction a
Vecina(p, a) ==
    CASE a = "UP"    -> <<p[1] - 1, p[2]>>
      [] a = "DOWN"  -> <<p[1] + 1, p[2]>>
      [] a = "LEFT"  -> <<p[1], p[2] - 1>>
      [] a = "RIGHT" -> <<p[1], p[2] + 1>>

\* C1: for a valid state and an action listed by acciones, resultado returns
\* a valid state that differs from the input in exactly two cells, the
\* blank's old cell and its neighbour in the action's direction, whose
\* contents are swapped.
C1_DosCeldas ==
    (op = "resultado" /\ EnLista(accion[1], PuzzleAcciones(arg))) =>
        /\ err = "None"
        /\ Len(ret) = 1
        /\ LET z == PosDe(arg, 0)
               t == Vecina(z, accion[1])
               n == ret[1]
           IN  /\ t \in Celdas
               /\ EsEstadoPuzzle(n)
               /\ {p \in Celdas : n[p[1]][p[2]] # arg[p[1]][p[2]]} = {z, t}
               /\ n[t[1]][t[2]] = 0
               /\ n[z[1]][z[2]] = arg[t[1]][t[2]]

C1_Witness ==
    /\ op = "resultado"
    /\ accion = <<"LEFT">>
    /\ err = "None"
    /\ PosDe(arg, 0) = <<1, 1>>
    /\ ret[1][1][0] = 0

RECURSIVE SumaPorFicha(_, _)
\* Manhattan distance of the tiles v..8 to their cells in 0,1,2/3,4,5/6,7,8
SumaPorFicha(e, v) ==
    IF v > 8 THEN 0
    ELSE abs(PosDe(e, v)[1] - (v \div 3)) + abs(PosDe(e, v)[2] - (v % 3))
            + SumaPorFicha(e, v + 1)

\* C7: valor_objetivo of a valid puzzle state is the sum over the tiles 1..8
\* of the Manhattan distance to the tile's goal cell; it is never negative
\* and it is 0 exactly for the canonical goal grid.
C7_Manhattan ==
    op = "valor_objetivo" =>
        /\ ret[1] = SumaPorFicha(arg, 1)
        /\ ret[1] >= 0
        /\ (ret[1] = 0) <=> (arg = GOAL)

C7_Witness == op = "valor_objetivo" /\ arg # GOAL /\ ret[1] = 4

Direcciones == {"UP", "DOWN", "LEFT", "RIGHT"}

\* C8: for a valid state, resultado with a direction raises the out-of-bounds
\* error (IndexError) exactly when acciones does not list the direction and
\* returns a successor otherwise; with any other action it raises the
\* invalid-action error (ValueError); a failing call returns nothing and
\* leaves its input as it was.
C8_Errores ==
    op = "resultado" =>
        /\ accion[1] \in Direcciones =>
              /\ (err = "IndexError") <=> ~EnLista(accion[1], PuzzleAcciones(arg))
              /\ (err = "None") <=> EnLista(accion[1], PuzzleAcciones(arg))
        /\ accion[1] \notin Direcciones => err = "ValueError"
        /\ (err = "None") <=> (Len(ret) = 1)
        /\ err # "None" => estado = arg

C8_Witness ==
    /\ op = "resultado"
    /\ accion = <<"UP">>
    /\ PosDe(arg, 0) = <<0, 0>>
    /\ err = "IndexError"
    /\ ret = <<>>

(***************************************************************************)
(* EightPuzzleProblem.estado_aleatorio                                     *)
(***************************************************************************)
range(n) == [i \in 0..(n - 1) |-> i]
Slice(l, a, b) == [i \in 0..(b - a - 1) |-> l[a + i]]

\* random.shuffle(perm) rearranges the list in place.  The random source is
\* bounded: it rearranges the first MaxShuffled entries only.
MaxShuffled == 5
Reordenes ==
    {[i \in 0..8 |-> IF i < MaxShuffled THEN q[i] ELSE i] :
        q \in Permutations(0..(MaxShuffled - 1))}
shuffle(l) == {[i \in 0..8 |-> l[s[i]]] : s \in Reordenes}

RandInit ==
    /\ perm = range(9)
    /\ pc = "shuffle"
    /\ ret = <<>>
    /\ NoCall
    /\ NoReach
    /\ NoHeap

\* line 125
Shuffle ==
    /\ pc = "shuffle"
    /\ perm' \in shuffle(perm)
    /\ pc' = "while"
    /\ UNCHANGED callVars

\* lines 127-128: the permutation is not solvable and is drawn again
Redraw ==
    /\ pc = "while"
    /\ ~__es_resoluble(perm)
    /\ perm' \in shuffle(perm)
    /\ pc' = "while"
    /\ UNCHANGED callVars

\* lines 127, 129
Return ==
    /\ pc = "while"
    /\ __es_resoluble(perm)
    /\ ret' = << [r \in 0..2 |-> Slice(perm, 3 * r, 3 * r + 3)] >>
    /\ pc' = "done"
    /\ UNCHANGED <<estado, arg, accion, err, op, perm>>

RandNext == (Shuffle \/ Redraw \/ Return) /\ UNCHANGED <<reachVars, heapVars>>

RandSpec == RandInit /\ [][RandNext]_vars

\* the row-major reading of a grid with the 0 taken out, as a sequence
SinCero(e) == SelectSeq([k \in 1..9 |-> e[(k - 1) \div 3][(k - 1) % 3]],
                        LAMBDA x : x # 0)
Inversiones(q) ==
    Cardinality({p \in (1..Len(q)) \X (1..Len(q)) : p[1] < p[2] /\ q[p[1]] > q[p[2]]})

\* C3: every state estado_aleatorio returns is a 3x3 grid with the values
\* 0..8 once each, exactly one 0, and an even number of inversions in its
\* row-major reading without the 0; an odd permutation is never returned.
C3_Aleatorio ==
    pc = "done" =>
        /\ Len(ret) = 1
        /\ EsEstadoPuzzle(ret[1])
        /\ Cardinality({p \in Celdas : ret[1][p[1]][p[2]] = 0}) = 1
        /\ Inversiones(SinCero(ret[1])) % 2 = 0

C3_Witness ==
    /\ pc = "done"
    /\ ret[1] # GOAL
    /\ ret[1][0][0] # 0
    /\ Inversiones(SinCero(ret[1])) > 0

(***************************************************************************)
(* The states resultado reaches from GOAL through the actions acciones     *)
(* lists.  A state is kept in the sets as the number its nine cells spell  *)
(* in row-major order.                                                     *)
(***************************************************************************)
Clave(e) ==
    e[0][0] * 100000000 + e[0][1] * 10000000 + e[0][2] * 1000000
        + e[1][0] * 100000 + e[1][1] * 10000 + e[1][2] * 1000
        + e[2][0] * 100 + e[2][1] * 10 + e[2][2]

DeClave(n) == [r \in 0..2 |-> [c \in 0..2 |-> (n \div 10 ^ (8 - (3 * r + c))) % 10]]

\* acciones raises on a grid without blank, and a call of resultado that
\* raises gives no successor
Sucesores(e) ==
    LET acts == IF _buscar_cero(e) = NoCero THEN <<>> ELSE PuzzleAcciones(e)
        outs == {PuzzleResultado(e, acts[i]) : i \in DOMAIN acts}
    IN  {Clave(o.ret[1]) : o \in {x \in outs : x.err = "None"}}

ReachInit ==
    /\ visitados = {Clave(GOAL)}
    /\ frontera = {Clave(GOAL)}
    /\ estado = <<>> /\ arg = <<>> /\ accion = <<>>
    /\ ret = <<>> /\ err = "None" /\ op = "new"
    /\ NoRand
    /\ NoHeap

\* the successors of the latest finds that were not visited before
Nuevos == UNION {Sucesores(DeClave(n)) : n \in frontera} \ visitados

\* one more resultado step from every state found by the latest step
Expandir ==
    /\ frontera # {}
    /\ \E nuevos \in {Nuevos} :
        /\ visitados' = visitados \cup nuevos
        /\ frontera' = nuevos
    /\ op' = "expandir"
    /\ UNCHANGED <<estado, arg, accion, ret, err, randVars, heapVars>>

\* the grids that rearrange the first five cells of GOAL; both parities occur
Consultas ==
    {Grid([i \in 0..8 |-> IF i < 5 THEN q[i] ELSE i]) : q \in Permutations(0..4)}

\* once no step finds a new state: is the state e among the visited ones?
Consultar ==
    /\ frontera = {}
    /\ op = "expandir"
    /\ \E e \in Consultas :
        /\ estado' = e
        /\ arg' = e
        /\ ret' = <<Clave(e) \in visitados>>
    /\ op' = "consultar"
    /\ UNCHANGED <<accion, err, randVars, reachVars, heapVars>>

ReachNext == Expandir \/ Consultar

ReachSpec == ReachInit /\ [][ReachNext]_vars

EsPar(e) == Inversiones(SinCero(e)) % 2 = 0

\* C2: a valid puzzle state is reachable from GOAL by resultado steps with
\* actions listed by acciones iff its row-major reading without the 0 has
\* an even number of inversions.  Every state a step finds is even; once
\* the steps find no new state, the visited states are all the reachable
\* ones, and they are the even ones among the arrangements of 0..8.
C2_Paridad ==
    /\ \A n \in frontera : EsPar(DeClave(n))
    /\ (op = "expandir" /\ frontera = {}) =>
          \A p \in Permutations(0..8) :
              EsPar(Grid(p)) <=> Clave(Grid(p)) \in visitados
    /\ op = "consultar" => (ret[1] <=> EsPar(estado))

\* two resultado steps from GOAL (DOWN, RIGHT) found 3,1,2/4,0,5/6,7,8,
\* which has two inversions
C2_Witness ==
    /\ op = "expandir"
    /\ Clave(Grid([i \in 0..8 |-> <<3, 1, 2, 4, 0, 5, 6, 7, 8>>[i + 1]])) \in frontera
    /\ Clave(GOAL) \in visitados
    /\ Inversiones(SinCero(Grid([i \in 0..8 |-> <<3, 1, 2, 4, 0, 5, 6, 7, 8>>[i + 1]]))) = 2

(***************************************************************************)
(* EightQueensProblem                                                      *)
(***************************************************************************)
N == 8

RECURSIVE AccionesDesde(_, _)
\* the nested loops of acciones from (col, row) = (k \div N + 1, k % N + 1)
AccionesDesde(e, k) ==
    IF k = N * N THEN <<>>
    ELSE LET col == (k \div N) + 1
             row == (k % N) + 1
         IN  IF e[col - 1] # row
             THEN <<<<row, col>>>> \o AccionesDesde(e, k + 1)
             ELSE AccionesDesde(e, k + 1)

\* mutant: the rows run over range(1, N) and leave out row N
QueensAcciones_SinUltima(e) == SelectSeq(AccionesDesde(e, 0), LAMBDA a : a[1] < N)

QueensAcciones(e) == AccionesDesde(e, 0)

\* mutant: the row is checked against 0 <= row <= N
QueensResultado_FilaCero(e, a) ==
    LET row == a[1]
        col == a[2]
        new_state == [e EXCEPT ![col - 1] = row]
    IN  IF ~(0 <= row /\ row <= N)
        THEN [err |-> "ValueError", ret |-> <<>>, estado |-> e]
        ELSE IF ~(1 <= col /\ col <= N)
        THEN [err |-> "ValueError", ret |-> <<>>, estado |-> e]
        ELSE [err |-> "None", ret |-> <<new_state>>, estado |-> e]

QueensResultado(e, a) ==
    LET row == a[1]
        col == a[2]
        new_state == [e EXCEPT ![col - 1] = row]
    IN  IF ~(1 <= row /\ row <= N)
        THEN [err |-> "ValueError", ret |-> <<>>, estado |-> e]
        ELSE IF ~(1 <= col /\ col <= N)
        THEN [err |-> "ValueError", ret |-> <<>>, estado |-> e]
        ELSE [err |-> "None", ret |-> <<new_state>>, estado |-> e]

\* mutant: the row difference is taken without abs
Conflicto_SinAbs(ri, rj, i, j) ==
    IF ri = rj THEN 1
    ELSE IF ri - rj = abs(i - j) THEN 1
    ELSE 0

\* lines 197-200: what the pair of columns i < j adds to conflictos
Conflicto(ri, rj, i, j) ==
    IF ri = rj THEN 1
    ELSE IF abs(ri - rj) = abs(i - j) THEN 1
    ELSE 0

RECURSIVE ConflictosDesde(_, _, _)
ConflictosDesde(e, i, j) ==
    IF i > N THEN 0
    ELSE IF j > N THEN ConflictosDesde(e, i + 1, i + 2)
    ELSE Conflicto(e[i - 1], e[j - 1], i, j) + ConflictosDesde(e, i, j + 1)

\* mutant: the inner loop starts at column i instead of i+1
QueensValorObjetivo_DesdeI(e) == ConflictosDesde(e, 1, 1)

QueensValorObjetivo(e) == ConflictosDesde(e, 1, 2)

Clasica == [i \in 0..(N - 1) |-> <<1, 3, 5, 7, 2, 4, 6, 8>>[i + 1]]
UnaFila == [i \in 0..(N - 1) |-> 1]

\* The queens of the first MaxLibres columns stand on any row and the others
\* on row 1; and the vector [1,3,5,7,2,4,6,8].
MaxLibres == 2
QueensStates ==
    {[i \in 0..(N - 1) |-> IF i < MaxLibres THEN f[i] ELSE UnaFila[i]] :
        f \in [0..(MaxLibres - 1) -> 1..N]} \cup {Clasica}

\* (row, col) pairs a caller may pass: the board and one step outside it
QueensInputs == (0..(N + 1)) \X (0..(N + 1))

QueensInit ==
    /\ estado \in QueensStates
    /\ arg = estado
    /\ accion = <<>>
    /\ ret = <<>>
    /\ err = "None"
    /\ op = "new"
    /\ NoRand
    /\ NoReach
    /\ NoHeap

CallQueensAcciones ==
    /\ op = "new"
    /\ op' = "acciones"
    /\ arg' = estado
    /\ accion' = <<>>
    /\ ret' = <<QueensAcciones(estado)>>
    /\ err' = "None"
    /\ UNCHANGED estado

CallQueensResultado(a) ==
    LET out == QueensResultado(estado, a)
    IN  /\ op = "new"
        /\ op' = "resultado"
        /\ arg' = estado
        /\ accion' = <<a>>
        /\ ret' = out.ret
        /\ err' = out.err
        /\ estado' = out.estado

CallQueensValorObjetivo ==
    /\ op = "new"
    /\ op' = "valor_objetivo"
    /\ arg' = estado
    /\ accion' = <<>>
    /\ ret' = <<QueensValorObjetivo(estado)>>
    /\ err' = "None"
    /\ UNCHANGED estado

QueensNext ==
    /\ \/ CallQueensAcciones
       \/ \E a \in QueensInputs : CallQueensResultado(a)
       \/ CallQueensValorObjetivo
    /\ UNCHANGED <<randVars, reachVars, heapVars>>

QueensSpec == QueensInit /\ [][QueensNext]_vars

EsEstadoQueens(e) == DOMAIN e = 0..(N - 1) /\ \A i \in 0..(N - 1) : e[i] \in 1..N

\* C4: for an 8-vector with values in 1..8, acciones lists exactly 56
\* distinct actions, 7 per column; applying a listed action (row, col) and
\* then (state[col-1], col) to the successor gives back the original state.
C4_IdaYVuelta ==
    /\ op = "acciones" =>
          /\ Len(ret[1]) = 56
          /\ \A i, j \in 1..Len(ret[1]) : i # j => ret[1][i] # ret[1][j]
          /\ \A col \in 1..N :
                Cardinality({i \in 1..Len(ret[1]) : ret[1][i][2] = col}) = 7
    /\ (op = "resultado" /\ EnLista(accion[1], QueensAcciones(arg))) =>
          /\ err = "None"
          /\ LET col == accion[1][2]
                 back == QueensResultado(ret[1], <<arg[col - 1], col>>)
             IN  back.err = "None" /\ back.ret = <<arg>>

C4_Witness ==
    /\ op = "resultado"
    /\ EnLista(accion[1], QueensAcciones(arg))
    /\ accion[1] = <<5, 8>>
    /\ ret[1] # arg

\* C5 as the specification states it: valor_objetivo([1,3,5,7,2,4,6,8]) is 0.
C5_Original ==
    (op = "valor_objetivo" /\ arg = Clasica) => ret[1] = 0

\* C5: valor_objetivo([1,3,5,7,2,4,6,8]) is 1: the queens of columns 1 and 8
\* stand on rows 1 and 8, on one diagonal, and no other pair attacks.
C5_Clasica ==
    (op = "valor_objetivo" /\ arg = Clasica) => ret[1] = 1

C5_Witness == op = "valor_objetivo" /\ arg = Clasica /\ Len(ret) = 1

SeAtacan(e, i, j) == e[i - 1] = e[j - 1] \/ abs(e[i - 1] - e[j - 1]) = abs(i - j)

\* C6: valor_objetivo is the number of column pairs i < j whose queens share
\* a row or a diagonal, each pair counted once; it lies in 0..28 and is 28
\* for [1,1,1,1,1,1,1,1].
C6_Pares ==
    op = "valor_objetivo" =>
        /\ ret[1] = Cardinality({p \in (1..N) \X (1..N) :
                                    p[1] < p[2] /\ SeAtacan(arg, p[1], p[2])})
        /\ ret[1] \in 0..28
        /\ arg = UnaFila => ret[1] = 28

C6_Witness == op = "valor_objetivo" /\ arg = UnaFila /\ ret = <<28>>

\* C10: resultado(state, (row, col)) raises the range error (ValueError) and
\* returns nothing when row or col is outside 1..8; otherwise it returns a
\* vector of the same length that holds row at index col-1 and the input's
\* values elsewhere, again an 8-vector over 1..8; the input is unchanged in
\* both cases.
C10_Rango ==
    op = "resultado" =>
        LET row == accion[1][1]
            col == accion[1][2]
        IN  /\ estado = arg
            /\ (row \notin 1..N \/ col \notin 1..N) =>
                  err = "ValueError" /\ ret = <<>>
            /\ (row \in 1..N /\ col \in 1..N) =>
                  /\ err = "None"
                  /\ Len(ret) = 1
                  /\ DOMAIN ret[1] = DOMAIN arg
                  /\ ret[1][col - 1] = row
                  /\ \A i \in DOMAIN arg : i # col - 1 => ret[1][i] = arg[i]
                  /\ EsEstadoQueens(ret[1])

C10_Witness ==
    /\ op = "resultado"
    /\ accion = << <<9, 3>> >>
    /\ err = "ValueError"
    /\ ret = <<>>
    /\ estado = arg

(***************************************************************************)
(* The list objects behind the states.  A puzzle state is a list of three  *)
(* row lists; a queens state is one list of integers.  The caller holds    *)
(* the list it gave to the constructor and every state a method returned,  *)
(* and overwrites their integer cells at will.                             *)
(***************************************************************************)
MaxCopias == 2
MaxMutaciones == 1

\* a new list object with the given items, at the next free address
Nuevo(h, items) == [h |-> Append(h, items), a |-> Len(h) + 1]

\* a puzzle grid laid out as an outer list and three fresh row lists
NuevaGrid(h, v) ==
    LET a  == Len(h) + 1
        h1 == Append(h, [r \in 0..2 |-> a + 1 + r])
        h2 == Append(Append(Append(h1, v[0]), v[1]), v[2])
    IN  [h |-> h2, a |-> a]

\* the value of the state object at address a
ValorDe(h, a) ==
    IF clase = "puzzle" THEN [r \in 0..2 |-> h[h[a][r]]] ELSE h[a]

\* the list objects that make up the state at address a
ObjetosDe(h, a) ==
    IF clase = "puzzle" THEN {a} \cup {h[a][r] : r \in 0..2} ELSE {a}

\* copy.deepcopy of a list of lists of integers: every list is new
DeepCopy(h, a) == NuevaGrid(h, [r \in 0..2 |-> h[h[a][r]]])

\* list(x): a new list with the items of x
ListCopy(h, a) == Nuevo(h, h[a])

\* self._initial = copy.deepcopy(initial) / self._initial = list(initial)
InitCopy(h, a) == IF clase = "puzzle" THEN DeepCopy(h, a) ELSE ListCopy(h, a)

\* mutant: return self._initial
EstadoInicial_SinCopia(h, a) == [h |-> h, a |-> a]

\* return copy.deepcopy(self._initial) / return list(self._initial)
EstadoInicial(h, a) == IF clase = "puzzle" THEN DeepCopy(h, a) ELSE ListCopy(h, a)

\* the initial states given to the constructor
Iniciales ==
    IF clase = "puzzle"
    THEN {GOAL, Grid([i \in 0..8 |-> <<1, 2, 3, 4, 0, 5, 6, 7, 8>>[i + 1]])}
    ELSE {Clasica, UnaFila}

\* the states estado_aleatorio returns here
Aleatorios ==
    IF clase = "puzzle"
    THEN {Grid([i \in 0..8 |-> <<1, 2, 0, 3, 4, 5, 6, 7, 8>>[i + 1]])}
    ELSE {[i \in 0..(N - 1) |-> N - i]}

\* the actions the caller passes to resultado here
AliasInputs ==
    IF clase = "puzzle" THEN {"DOWN", "STAY"} ELSE {<<2, 1>>, <<0, 1>>}

\* the values the caller writes into a cell
MutVals == {0}

AliasInit ==
    /\ clase \in {"puzzle", "queens"}
    /\ s0 \in Iniciales
    /\ LET dado == IF clase = "puzzle" THEN NuevaGrid(<<>>, s0) ELSE Nuevo(<<>>, s0)
           cop  == InitCopy(dado.h, dado.a)
       IN  /\ heap = cop.h
           /\ _initial = cop.a
           /\ refs = {dado.a}
    /\ copias = 0
    /\ mutaciones = 0
    /\ estado = <<>> /\ arg = <<>> /\ accion = <<>>
    /\ ret = <<>> /\ err = "None" /\ op = "new"
    /\ NoRand
    /\ NoReach

AliasFrame == UNCHANGED <<estado, arg, accion, randVars, reachVars, clase, _initial, s0>>

LlamarEstadoInicial ==
    /\ copias < MaxCopias
    /\ LET cop == EstadoInicial(heap, _initial)
       IN  /\ heap' = cop.h
           /\ refs' = refs \cup {cop.a}
           /\ ret' = <<ValorDe(cop.h, cop.a)>>
    /\ op' = "estado_inicial"
    /\ err' = "None"
    /\ copias' = copias + 1
    /\ UNCHANGED mutaciones
    /\ AliasFrame

LlamarEstadoAleatorio ==
    /\ copias < MaxCopias
    /\ \E v \in Aleatorios :
        LET n == IF clase = "puzzle" THEN NuevaGrid(heap, v) ELSE Nuevo(heap, v)
        IN  /\ heap' = n.h
            /\ refs' = refs \cup {n.a}
            /\ ret' = <<v>>
    /\ op' = "estado_aleatorio"
    /\ err' = "None"
    /\ copias' = copias + 1
    /\ UNCHANGED mutaciones
    /\ AliasFrame

\* resultado on a state the caller holds.  The successor is built in lists
\* of its own (deepcopy / list); a call that raises hands nothing over.
LlamarResultado ==
    /\ copias < MaxCopias
    /\ \E x \in refs, a \in AliasInputs :
        LET out == IF clase = "puzzle" THEN PuzzleResultado(ValorDe(heap, x), a)
                   ELSE QueensResultado(ValorDe(heap, x), a)
            n   == IF clase = "puzzle" THEN NuevaGrid(heap, out.ret[1])
                   ELSE Nuevo(heap, out.ret[1])
        IN  IF out.err = "None"
            THEN /\ heap' = n.h
                 /\ refs' = refs \cup {n.a}
                 /\ ret' = out.ret
                 /\ err' = "None"
                 /\ copias' = copias + 1
            ELSE /\ ret' = <<>>
                 /\ err' = out.err
                 /\ UNCHANGED <<heap, refs, copias>>
    /\ op' = "resultado"
    /\ UNCHANGED mutaciones
    /\ AliasFrame

\* acciones and valor_objetivo read the state and hand over no state;
\* acciones raises on a grid without blank
LlamarLectura ==
    /\ \E x \in refs, m \in {"acciones", "valor_objetivo"} :
        /\ op' = m
        /\ err' = IF clase = "puzzle" /\ m = "acciones"
                     /\ _buscar_cero(ValorDe(heap, x)) = NoCero
                  THEN "ValueError" ELSE "None"
    /\ ret' = <<>>
    /\ UNCHANGED <<heap, refs, copias, mutaciones>>
    /\ AliasFrame

\* the caller writes v into a cell of a list it can reach
Mutar ==
    /\ mutaciones < MaxMutaciones
    /\ \E x \in refs, v \in MutVals :
        \E o \in (IF clase = "puzzle" THEN {heap[x][r] : r \in 0..2} ELSE {x}) :
            \E i \in DOMAIN heap[o] :
                /\ heap[o][i] # v
                /\ heap' = [heap EXCEPT ![o][i] = v]
    /\ mutaciones' = mutaciones + 1
    /\ op' = "mutar"
    /\ ret' = <<>>
    /\ err' = "None"
    /\ UNCHANGED <<refs, copias>>
    /\ AliasFrame

AliasNext ==
    \/ LlamarEstadoInicial
    \/ LlamarEstadoAleatorio
    \/ LlamarResultado
    \/ LlamarLectura
    \/ Mutar

AliasSpec == AliasInit /\ [][AliasNext]_vars

\* C9: with an explicit initial state s0, whatever the calls made and
\* whatever the caller writes into the list it passed and into the states
\* it was given, the stored initial state still has the value s0, every
\* estado_inicial() returns s0, and no list the caller holds is one of the
\* lists of the stored initial state.
C9_InicialIntacto ==
    clase \in {"puzzle", "queens"} =>
        /\ ValorDe(heap, _initial) = s0
        /\ op = "estado_inicial" => ret = <<s0>>
        /\ \A x \in refs : ObjetosDe(heap, x) \cap ObjetosDe(heap, _initial) = {}

C9_Witness ==
    /\ op = "estado_inicial"
    /\ copias = 2
    /\ mutaciones > 0
    /\ \E x \in refs : ValorDe(heap, x) # s0
    /\ ret = <<s0>>
====
